---- MODULE Spec2Model ----
(***************************************************************************)
(* Model of the two heartbeat committers of RemoteConfig:                  *)
(*   auto_committer.py         (variant "heartbeat": append-fixed)         *)
(*   auto_committer_readme.py  (variant "readme": append/prepend template) *)
(* One run of main(): startup checks, ensure_branch, then the loop         *)
(* mutate -> git add -> git commit -> git push -> sleep, with              *)
(* KeyboardInterrupt able to arrive between any two steps.  git is an      *)
(* opaque collaborator: every command either succeeds with its documented  *)
(* effect or exits non-zero (CalledProcessError from sh).                  *)
(***************************************************************************)
EXTENDS Integers, Sequences, FiniteSets, TLC

----------------------------------------------------------------------------
(* Bounds of the model *)

\* number of records (loop iterations begun) explored in one run
MaxIter == 2
\* length of the target file's content before the run, in bytes
MaxPre == 1
\* length of the captured output (stdout plus stderr) of a failed commit, in
\* fragments
MaxOut == 2

----------------------------------------------------------------------------
(* Text.  A file or a line is a sequence of tokens [k, v]; k names the     *)
(* character (or fixed fragment) and v carries the clock reading of a      *)
(* rendered timestamp (0 for everything else).                             *)

Ch(c) == [k |-> c, v |-> 0]

\* "heartbeat: " / "- heartbeat " fragments, one text byte, line ends, and a
\* byte that is not valid UTF-8
LF == Ch("LF")
CR == Ch("CR")
BAD == Ch("BAD")
TXT == Ch("a")
PLACEHOLDER == Ch("{ts}")

\* datetime.now(timezone.utc).strftime("%Y-%m-%dT%H:%M:%S.%fZ"): the clock
\* reading, rendered at microsecond precision (the clock counts microseconds,
\* so two readings render alike only when they are equal)
strftime(clock) == [k |-> "ts", v |-> clock]

RECURSIVE Concat(_)
Concat(ss) == IF ss = << >> THEN << >> ELSE Head(ss) \o Concat(Tail(ss))

\* str.format(ts=ts) on the line template: every {ts} is replaced
format(template, ts) ==
    [i \in 1..Len(template) |->
        IF template[i] = PLACEHOLDER THEN ts ELSE template[i]]

\* line.endswith("\n")
endswith_nl(line) == Len(line) > 0 /\ line[Len(line)] = LF

\* line + ("\n" if not line.endswith("\n") else "")
with_newline(line) == IF endswith_nl(line) THEN line ELSE line \o <<LF>>

\* payload = f"heartbeat: {now}\n"
payload(now) == <<Ch("heartbeat: "), now, LF>>

\* bytes.decode("utf-8", errors="ignore"): undecodable bytes are dropped
RECURSIVE decode_ignore(_)
decode_ignore(bytes) ==
    IF bytes = << >> THEN << >>
    ELSE IF Head(bytes) = BAD THEN decode_ignore(Tail(bytes))
    ELSE <<Head(bytes)>> \o decode_ignore(Tail(bytes))

\* text-mode read with newline=None: "\r\n" and a lone "\r" become "\n"
RECURSIVE universal_newlines(_)
universal_newlines(text) ==
    IF text = << >> THEN << >>
    ELSE IF Head(text) = CR
         THEN IF Len(text) > 1 /\ text[2] = LF
              THEN <<LF>> \o universal_newlines(Tail(Tail(text)))
              ELSE <<LF>> \o universal_newlines(Tail(text))
    ELSE <<Head(text)>> \o universal_newlines(Tail(text))

\* file_path.read_text(encoding="utf-8", errors="ignore")
read_text(bytes) == universal_newlines(decode_ignore(bytes))

\* sequences over S of length at most n
SeqsUpTo(S, n) == UNION {[1..m -> S] : m \in 0..n}

----------------------------------------------------------------------------
(* Captured output of a failed command: e.stdout and e.stderr are sequences *)
(* of fragments; the upper-case fragment differs from "nothing to" only in  *)
(* case.                                                                    *)

Fragments == {"nothing to", "NOTHING TO", " commit"}

\* str.lower(), fragment by fragment
lower(out) ==
    [i \in 1..Len(out) |-> IF out[i] = "NOTHING TO" THEN "nothing to" ELSE out[i]]

\* the needle "nothing to commit"
MARKER == <<"nothing to", " commit">>

\* needle in haystack
contains(haystack, needle) ==
    \E i \in 0..(Len(haystack) - Len(needle)) :
        \A j \in 1..Len(needle) : haystack[i + j] = needle[j]

\* "nothing to commit" in (e.stdout + e.stderr).lower()
nothing_to_commit(err) == contains(lower(err.stdout \o err.stderr), MARKER)

CommandOutputs ==
    {o \in [stdout : SeqsUpTo(Fragments, MaxOut), stderr : SeqsUpTo(Fragments, MaxOut)] :
        Len(o.stdout) + Len(o.stderr) <= MaxOut}

----------------------------------------------------------------------------
(* Configuration *)

Variants == {"heartbeat", "readme"}

\* --line-template: the default "- heartbeat {ts}", a template that already
\* ends with a newline, one without the placeholder, and one that holds a
\* carriage return
LineTemplates == { <<TXT, PLACEHOLDER>>, <<PLACEHOLDER, LF>>, <<TXT>>, <<CR, PLACEHOLDER>> }

\* --interval, seconds (> 0, spec section 3)
Intervals == {2}

\* the branch checked out when the program starts, and --branch
StartBranch == "main"
TargetBranch == "work"

\* bytes of the content the file holds before the run: plain text (a line
\* end), a carriage return, and a byte that is not valid UTF-8
PreAlphabet == {LF, CR, BAD}

\* commits that exist before the run
RootCommit == [msg |-> <<Ch("root")>>, tree |-> << >>]
OldCommit == [msg |-> <<Ch("old")>>, tree |-> << >>]

\* the output of a failed commit names "nothing to commit", in any case
\* (what git reported, told from the captured text without the program's code)
says_nothing_to_commit(out) ==
    LET text == out.stdout \o out.stderr IN
    \E i \in 1..(Len(text) - 1) :
        /\ text[i] \in {"nothing to", "NOTHING TO"}
        /\ text[i + 1] = " commit"

NoTs == Ch("unset")
NoExc == [type |-> "none", at |-> "none"]

\* f"{args.message} {ts}"
commit_message(t) == <<Ch("[bot] heartbeat"), Ch(" "), t>>

VARIABLES
    variant,    \* which script runs
    args,       \* argparse namespace: branch, no_push, prepend, line_template, interval
    git_dir,    \* (repo / ".git").exists()
    pc,         \* the statement main() is at
    exit_code,  \* process exit status, -1 while running
    exc,        \* the exception that ended the run, if any, and the step it hit
    printed,    \* what the last step printed ("" when nothing)
    clock,      \* UTC clock, microseconds
    ts,         \* local ts of the loop body
    line,       \* local line of the loop body (readme variant)
    existing,   \* local existing of write_line while a prepend is being written
    file,       \* content of the target file
    index,      \* git index: staged content of the target file
    refs,       \* local branches: name -> history (<< >> when the branch is absent)
    head,       \* the branch checked out
    remote,     \* history of args.branch on the remote
    iter,       \* number of mutate calls made
    slept,      \* total time spent in completed time.sleep calls
    pre,        \* history: content of the target file before the run
    trace       \* history: the operations completed so far, with their results

vars == <<variant, args, git_dir, pc, exit_code, exc, printed, clock, ts, line,
          existing, file, index, refs, head, remote, iter, slept, pre, trace>>

config == <<variant, args, git_dir, pre>>
locals == <<ts, line, existing>>
git == <<index, refs, head, remote>>

Init ==
    /\ variant \in Variants
    /\ args \in [branch : {TargetBranch},
                 no_push : BOOLEAN,
                 prepend : IF variant = "readme" THEN BOOLEAN ELSE {FALSE},
                 line_template : IF variant = "readme" THEN LineTemplates ELSE {<< >>},
                 interval : Intervals]
    /\ git_dir \in BOOLEAN
    /\ pc = "check_repo"
    /\ exit_code = -1
    /\ exc = NoExc
    /\ printed = ""
    /\ clock = 0
    /\ ts = NoTs
    /\ line = << >>
    /\ existing = << >>
    /\ pre \in SeqsUpTo(PreAlphabet, MaxPre)
    /\ file = pre
    /\ index = << >>
    /\ refs \in { [b \in {StartBranch, TargetBranch} |->
                      IF b = StartBranch THEN <<RootCommit>>
                      ELSE IF present THEN <<RootCommit, OldCommit>> ELSE << >>]
                  : present \in BOOLEAN }
    /\ head = StartBranch
    /\ remote = << >>
    /\ iter = 0
    /\ slept = 0
    /\ trace = << >>

----------------------------------------------------------------------------
(* Derived history *)

\* the entries of the history for operation op
entries(op) == SelectSeq(trace, LAMBDA x : x.op = op)

\* the last entry of the history (none before the first operation)
last_op == IF trace = << >> THEN [op |-> "none", res |-> "none"] ELSE trace[Len(trace)]

\* the history since the last completed write: the iteration in progress
RECURSIVE since_write(_)
since_write(t) ==
    IF t = << >> THEN << >>
    ELSE IF t[Len(t)].op = "write" THEN << >>
    ELSE Append(since_write(SubSeq(t, 1, Len(t) - 1)), t[Len(t)])

\* the commits the loop made on the branch checked out
loop_commits == SelectSeq(refs[head], LAMBDA c : c.msg[1] = Ch("[bot] heartbeat"))

----------------------------------------------------------------------------
(* Process exit *)

StartupSteps == {"check_repo", "status", "verify", "checkout", "create"}
LoopSteps == {"mutate", "write", "add", "commit", "retry_sleep", "push_check",
              "push", "sleep"}

\* history entry: operation op completed with result res
done(op, res) == trace' = Append(trace, [op |-> op, res |-> res])

\* sys.exit(code)
sys_exit(code) ==
    /\ pc' = "exited"
    /\ exit_code' = code
    /\ exc' = NoExc

\* an exception no handler of main() catches: traceback, exit status 1
uncaught(type) ==
    /\ pc' = "exited"
    /\ exit_code' = 1
    /\ exc' = [type |-> type, at |-> pc]
    /\ printed' = "Traceback"

running(next) ==
    /\ pc' = next
    /\ UNCHANGED <<exit_code, exc>>

----------------------------------------------------------------------------
(* Startup: main() before the loop *)

\* if not (repo / ".git").exists(): print ERROR; sys.exit(2)
CheckRepo ==
    /\ pc = "check_repo"
    /\ IF git_dir
       THEN running("status") /\ printed' = ""
       ELSE sys_exit(2) /\ printed' = "ERROR"
    /\ UNCHANGED <<config, clock, locals, file, git, iter, slept, trace>>

\* variant of Status: a failed status check is reported but startup goes on
Status_continue ==
    /\ pc = "status"
    /\ \/ \E dirty \in BOOLEAN :
            /\ running("verify")
            /\ printed' = IF dirty THEN "NOTE" ELSE ""
            /\ done("status", "ok")
       \/ /\ running("verify")
          /\ printed' = "e.stderr"
          /\ done("status", "failed")
    /\ UNCHANGED <<config, clock, locals, file, git, iter, slept>>

\* status = sh(["git", "status", "--porcelain"]); a non-empty status only warns;
\* CalledProcessError: print(e.stderr); sys.exit(3)
Status ==
    /\ pc = "status"
    /\ \/ \E dirty \in BOOLEAN :
            /\ running("verify")
            /\ printed' = IF dirty THEN "NOTE" ELSE ""
            /\ done("status", "ok")
       \/ /\ sys_exit(3)
          /\ printed' = "e.stderr"
          /\ done("status", "failed")
    /\ UNCHANGED <<config, clock, locals, file, git, iter, slept>>

\* where ensure_branch goes after git rev-parse --verify
after_verify(ok) == IF ok THEN "checkout" ELSE "create"

\* where ensure_branch goes when git checkout <branch> raised: the except
\* clause of the try block that holds both commands
after_checkout_failed == "create"

\* sh(["git", "rev-parse", "--verify", branch]): succeeds iff the ref exists
VerifyRef ==
    /\ pc = "verify"
    /\ LET ok == refs[args.branch] # << >> IN
         /\ running(after_verify(ok))
         /\ done("verify", IF ok THEN "ok" ELSE "failed")
    /\ printed' = ""
    /\ UNCHANGED <<config, clock, locals, file, git, iter, slept>>

\* sh(["git", "checkout", branch]); on return main() prints "Starting" and
\* enters the loop
Checkout ==
    /\ pc = "checkout"
    /\ \/ /\ refs[args.branch] # << >>
          /\ head' = args.branch
          /\ running("mutate")
          /\ printed' = "Starting"
          /\ done("checkout", "ok")
       \/ /\ running(after_checkout_failed)
          /\ printed' = ""
          /\ done("checkout", "failed")
          /\ UNCHANGED head
    /\ UNCHANGED <<config, clock, locals, file, index, refs, remote, iter, slept>>

\* sh(["git", "checkout", "-b", branch]): creates the branch at the current
\* head and switches to it; fails when the branch exists; its
\* CalledProcessError is not caught
CreateBranch ==
    /\ pc = "create"
    /\ \/ /\ refs[args.branch] = << >>
          /\ refs' = [refs EXCEPT ![args.branch] = refs[head]]
          /\ head' = args.branch
          /\ running("mutate")
          /\ printed' = "Starting"
          /\ done("create", "ok")
       \/ /\ uncaught("CalledProcessError")
          /\ done("create", "failed")
          /\ UNCHANGED <<refs, head>>
    /\ UNCHANGED <<config, clock, locals, file, index, remote, iter, slept>>

\* Ctrl-C before the try block of main(): not caught
InterruptStartup ==
    /\ pc \in StartupSteps
    /\ pc' = "exited"
    /\ exit_code' = 130
    /\ exc' = [type |-> "KeyboardInterrupt", at |-> pc]
    /\ printed' = "Traceback"
    /\ UNCHANGED <<config, clock, locals, file, git, iter, slept, trace>>

----------------------------------------------------------------------------
(* The loop: while True inside try ... except KeyboardInterrupt *)

\* variant of MutateHeartbeat: the record gets a fresh timestamp but the loop
\* keeps the ts of its first iteration for the commit message
MutateHeartbeat_stale_ts ==
    /\ pc = "mutate"
    /\ variant = "heartbeat"
    /\ iter < MaxIter
    /\ iter' = iter + 1
    /\ \/ /\ ts' = IF ts = NoTs THEN strftime(clock) ELSE ts
          /\ file' = file \o payload(strftime(clock))
          /\ running("add")
          /\ printed' = ""
          /\ done("write", "ok")
       \/ /\ uncaught("OSError")
          /\ done("write", "failed")
          /\ UNCHANGED <<ts, file>>
    /\ UNCHANGED <<config, clock, line, existing, git, slept>>

\* auto_committer.py, ts = write_heartbeat(heartbeat_path): mkdir, read the
\* clock, append the payload; an OSError is not caught
MutateHeartbeat ==
    /\ pc = "mutate"
    /\ variant = "heartbeat"
    /\ iter < MaxIter
    /\ iter' = iter + 1
    /\ \/ /\ ts' = strftime(clock)
          /\ file' = file \o payload(ts')
          /\ running("add")
          /\ printed' = ""
          /\ done("write", "ok")
       \/ /\ uncaught("OSError")
          /\ done("write", "failed")
          /\ UNCHANGED <<ts, file>>
    /\ UNCHANGED <<config, clock, line, existing, git, slept>>

\* variant of MutateReadme: a failed write is logged and the loop sleeps and
\* tries again, as after a failed commit
MutateReadme_retry ==
    /\ pc = "mutate"
    /\ variant = "readme"
    /\ iter < MaxIter
    /\ iter' = iter + 1
    /\ \/ /\ ts' = strftime(clock)
          /\ line' = format(args.line_template, ts')
          /\ IF args.prepend
             THEN /\ existing' = read_text(file)
                  /\ file' = << >>
                  /\ running("write")
                  /\ UNCHANGED trace
             ELSE /\ file' = file \o with_newline(line')
                  /\ running("add")
                  /\ done("write", "ok")
                  /\ UNCHANGED existing
          /\ printed' = ""
       \/ /\ running("retry_sleep")
          /\ printed' = "Write failed"
          /\ done("write", "failed")
          /\ UNCHANGED <<ts, line, existing, file>>
    /\ UNCHANGED <<config, clock, git, slept>>

\* auto_committer_readme.py: ts = now; line = args.line_template.format(ts=ts);
\* write_line(target_path, line, args.prepend).  Append mode writes the line
\* in one step; prepend mode reads the file and opens it for writing, which
\* truncates it (the two writes follow in PrependWrite)
MutateReadme ==
    /\ pc = "mutate"
    /\ variant = "readme"
    /\ iter < MaxIter
    /\ iter' = iter + 1
    /\ \/ /\ ts' = strftime(clock)
          /\ line' = format(args.line_template, ts')
          /\ IF args.prepend
             THEN /\ existing' = read_text(file)
                  /\ file' = << >>
                  /\ running("write")
                  /\ UNCHANGED trace
             ELSE /\ file' = file \o with_newline(line')
                  /\ running("add")
                  /\ done("write", "ok")
                  /\ UNCHANGED existing
          /\ printed' = ""
       \/ /\ uncaught("OSError")
          /\ done("write", "failed")
          /\ UNCHANGED <<ts, line, existing, file>>
    /\ UNCHANGED <<config, clock, git, slept>>

\* variant of PrependWrite: the two writes in the other order
PrependWrite_existing_first ==
    /\ pc = "write"
    /\ file' = existing \o with_newline(line)
    /\ existing' = << >>
    /\ running("add")
    /\ printed' = ""
    /\ done("write", "ok")
    /\ UNCHANGED <<config, clock, ts, line, git, iter, slept>>

\* what an unfinished write leaves in the file: leaving the with block closes
\* the file and flushes what was written so far.  In a prepend the file was
\* truncated by open("w"), and the write ends before the first f.write or
\* between the two
interrupted_file ==
    IF pc = "write" THEN {<< >>, with_newline(line)} ELSE {file}

\* write_line, prepend: f.write(line + newline); f.write(existing); close.
\* An OSError of a write is not caught
PrependWrite ==
    /\ pc = "write"
    /\ \/ /\ file' = with_newline(line) \o existing
          /\ existing' = << >>
          /\ running("add")
          /\ printed' = ""
          /\ done("write", "ok")
       \/ /\ file' \in interrupted_file
          /\ uncaught("OSError")
          /\ done("write", "failed")
          /\ UNCHANGED existing
    /\ UNCHANGED <<config, clock, ts, line, git, iter, slept>>

\* variant of Add: a failed git add is ignored and the commit follows
Add_unguarded ==
    /\ pc = "add"
    /\ \/ /\ index' = file
          /\ done("add", "ok")
       \/ /\ done("add", "failed")
          /\ UNCHANGED index
    /\ running("commit")
    /\ printed' = ""
    /\ UNCHANGED <<config, clock, locals, file, refs, head, remote, iter, slept>>

\* sh(["git", "add", rel]): outside every try block but the KeyboardInterrupt
\* one, so its CalledProcessError ends the process
Add ==
    /\ pc = "add"
    /\ \/ /\ index' = file
          /\ running("commit")
          /\ printed' = ""
          /\ done("add", "ok")
       \/ /\ uncaught("CalledProcessError")
          /\ done("add", "failed")
          /\ UNCHANGED index
    /\ UNCHANGED <<config, clock, locals, file, refs, head, remote, iter, slept>>

\* variant of except_commit: the handler without its continue, so a failed
\* commit is logged and the loop body goes on to the push step
except_commit_fallthrough(err) ==
    IF nothing_to_commit(err)
    THEN running("push_check") /\ printed' = ""
    ELSE running("push_check") /\ printed' = "Commit failed"

\* except subprocess.CalledProcessError as e: pass when the output holds
\* "nothing to commit", else print "Commit failed" (then sleep and continue)
except_commit(err) ==
    IF nothing_to_commit(err)
    THEN running("push_check") /\ printed' = ""
    ELSE running("retry_sleep") /\ printed' = "Commit failed"

\* sh(commit_cmd) with commit_cmd = ["git", "commit", "-m", f"{args.message} {ts}"],
\* and the handler of its CalledProcessError
Commit ==
    /\ pc = "commit"
    /\ \/ /\ refs' = [refs EXCEPT
                        ![head] = Append(@, [msg |-> commit_message(ts), tree |-> index])]
          /\ running("push_check")
          /\ printed' = ""
          /\ done("commit", "ok")
       \/ \E err \in CommandOutputs :
            /\ except_commit(err)
            /\ done("commit", IF says_nothing_to_commit(err) THEN "nothing" ELSE "failed")
            /\ UNCHANGED refs
    /\ UNCHANGED <<config, clock, locals, file, index, head, remote, iter, slept>>

\* time.sleep(args.interval)
time_sleep ==
    /\ clock' = clock + args.interval
    /\ slept' = slept + args.interval
    /\ done("sleep", "ok")

\* variant of RetrySleep: after a failed commit the file and the index are put
\* back to the last committed content before the loop retries
RetrySleep_discard ==
    /\ pc = "retry_sleep"
    /\ time_sleep
    /\ file' = IF loop_commits = << >> THEN pre ELSE loop_commits[Len(loop_commits)].tree
    /\ index' = file'
    /\ running("mutate")
    /\ printed' = ""
    /\ UNCHANGED <<config, locals, refs, head, remote, iter>>

\* variant of RetrySleep: continue without the sleep
RetrySleep_no_sleep ==
    /\ pc = "retry_sleep"
    /\ running("mutate")
    /\ printed' = ""
    /\ UNCHANGED <<config, clock, locals, file, git, iter, slept, trace>>

\* time.sleep(args.interval); continue
RetrySleep ==
    /\ pc = "retry_sleep"
    /\ time_sleep
    /\ running("mutate")
    /\ printed' = ""
    /\ UNCHANGED <<config, locals, file, git, iter>>

\* the test of the push step.  auto_committer.py:95 reads args.no-push, that
\* is (args.no) - push: the namespace has no attribute "no", so the test
\* raises AttributeError.  auto_committer_readme.py:110 reads args.no_push.
push_test(script) ==
    IF script = "heartbeat" THEN "AttributeError"
    ELSE IF args.no_push THEN "skip" ELSE "push"

\* the test as the running script makes it
no_push_test == push_test(variant)

\* if not args.no_push:
PushCheck ==
    /\ pc = "push_check"
    /\ IF no_push_test = "AttributeError"
       THEN uncaught("AttributeError")
       ELSE /\ running(IF no_push_test = "push" THEN "push" ELSE "sleep")
            /\ printed' = ""
    /\ UNCHANGED <<config, clock, locals, file, git, iter, slept, trace>>

\* variant of after_push: a failed push is tried again at once
after_push_retry(ok) == IF ok THEN "sleep" ELSE "push"

\* where the loop goes after the push command returned or raised
after_push(ok) == "sleep"

\* variant of Push: git push run outside a try block, as git add is
Push_uncaught ==
    /\ pc = "push"
    /\ \/ /\ remote' = refs[args.branch]
          /\ printed' = ""
          /\ done("push", "ok")
          /\ running(after_push(TRUE))
       \/ /\ uncaught("CalledProcessError")
          /\ done("push", "failed")
          /\ UNCHANGED remote
    /\ UNCHANGED <<config, clock, locals, file, index, refs, head, iter, slept>>

\* variant of Push: a failed push takes the commit back
Push_rollback ==
    /\ pc = "push"
    /\ \E ok \in BOOLEAN :
         /\ remote' = IF ok THEN refs[args.branch] ELSE remote
         /\ refs' = IF ok \/ loop_commits = << >> THEN refs
                    ELSE [refs EXCEPT ![head] = SubSeq(@, 1, Len(@) - 1)]
         /\ printed' = IF ok THEN "" ELSE "Push failed"
         /\ done("push", IF ok THEN "ok" ELSE "failed")
         /\ running(after_push(ok))
    /\ UNCHANGED <<config, clock, locals, file, index, head, iter, slept>>

\* sh(["git", "push", args.remote, args.branch]); CalledProcessError: print
\* "Push failed (will retry on next loop)"
Push ==
    /\ pc = "push"
    /\ \E ok \in BOOLEAN :
         /\ remote' = IF ok THEN refs[args.branch] ELSE remote
         /\ printed' = IF ok THEN "" ELSE "Push failed"
         /\ done("push", IF ok THEN "ok" ELSE "failed")
         /\ running(after_push(ok))
    /\ UNCHANGED <<config, clock, locals, file, index, refs, head, iter, slept>>

\* time.sleep(args.interval) at the end of the loop body
Sleep ==
    /\ pc = "sleep"
    /\ time_sleep
    /\ running("mutate")
    /\ printed' = ""
    /\ UNCHANGED <<config, locals, file, git, iter>>

\* variant of KeyboardInterrupt: cancellation honoured between iterations only
KeyboardInterrupt_boundary ==
    /\ pc \in {"mutate", "sleep", "retry_sleep"}
    /\ file' = file
    /\ pc' = "stopped"
    /\ exit_code' = 0
    /\ exc' = [type |-> "KeyboardInterrupt", at |-> pc]
    /\ printed' = "Stopped by user."
    /\ UNCHANGED <<config, clock, locals, git, iter, slept, trace>>

\* except KeyboardInterrupt: print("\nStopped by user."): the signal can
\* arrive at any statement of the loop; main() returns, exit status 0
KeyboardInterrupt ==
    /\ pc \in LoopSteps
    /\ file' \in interrupted_file
    /\ pc' = "stopped"
    /\ exit_code' = 0
    /\ exc' = [type |-> "KeyboardInterrupt", at |-> pc]
    /\ printed' = "Stopped by user."
    /\ UNCHANGED <<config, clock, locals, git, iter, slept, trace>>

Next ==
    \/ CheckRepo
    \/ Status
    \/ VerifyRef
    \/ Checkout
    \/ CreateBranch
    \/ InterruptStartup
    \/ MutateHeartbeat
    \/ MutateReadme
    \/ PrependWrite
    \/ Add
    \/ Commit
    \/ RetrySleep
    \/ PushCheck
    \/ Push
    \/ Sleep
    \/ KeyboardInterrupt

Spec == Init /\ [][Next]_vars

----------------------------------------------------------------------------
(* Claims *)

\* C1: push is governed by --no-push in both scripts: with --no-push the push
\* step never invokes push and the loop goes on to sleep; without it, push is
\* attempted in every iteration whose commit succeeded or reported nothing to
\* commit.  (Stated as the original claim; auto_committer.py violates it.)
C1_PushGovernedByFlag ==
    [][pc = "push_check" /\ pc' # "stopped"
         => pc' = IF args.no_push THEN "sleep" ELSE "push"]_vars

\* C2: a failed push never aborts the loop: when the push command exits
\* non-zero the failure is logged and the loop goes on to the sleep, and from
\* the sleep to the next mutate; the process never ends in the push command
\* or right after it, however many pushes failed.
C2_PushFailureNeverAborts ==
    [][/\ pc' = "exited" => (pc # "push" /\ last_op.op # "push")
       /\ (pc = "push" /\ trace' = Append(trace, [op |-> "push", res |-> "failed"]))
             => /\ pc' = "sleep"
                /\ printed' = "Push failed"
                /\ exit_code' = -1
                /\ UNCHANGED <<refs, remote, file>>
       /\ pc = "sleep"
             => \/ /\ pc' = "mutate"
                   /\ exit_code' = -1
                   /\ trace' = Append(trace, [op |-> "sleep", res |-> "ok"])
                \/ pc' = "stopped"]_vars

\* C2 witness: push failed in both iterations and the loop is back at mutate
C2_Witness ==
    /\ entries("push") = <<[op |-> "push", res |-> "failed"], [op |-> "push", res |-> "failed"]>>
    /\ last_op = [op |-> "sleep", res |-> "ok"]
    /\ pc = "mutate"
    /\ exit_code = -1

\* C3: a commit that fails without the "nothing to commit" marker is logged,
\* followed by exactly one sleep of the configured interval and no push, and
\* the loop restarts at the mutate step; the process does not end.
C3_CommitFailureRetries ==
    [][/\ (pc = "commit" /\ trace' = Append(trace, [op |-> "commit", res |-> "failed"]))
             => /\ pc' = "retry_sleep"
                /\ printed' = "Commit failed"
                /\ exit_code' = -1
                /\ slept' = slept
                /\ UNCHANGED <<refs, remote>>
       /\ pc = "retry_sleep"
             => \/ /\ pc' = "mutate"
                   /\ exit_code' = -1
                   /\ slept' = slept + args.interval
                   /\ trace' = Append(trace, [op |-> "sleep", res |-> "ok"])
                   /\ UNCHANGED <<file, remote, iter>>
                \/ pc' = "stopped"]_vars

\* C3 witness: after a failed commit and its sleep, the next record was written
C3_Witness ==
    /\ Len(trace) >= 3
    /\ trace[Len(trace) - 2] = [op |-> "commit", res |-> "failed"]
    /\ trace[Len(trace) - 1] = [op |-> "sleep", res |-> "ok"]
    /\ trace[Len(trace)] = [op |-> "write", res |-> "ok"]
    /\ iter = 2
    /\ pc = "add"

\* C4: a commit that fails with "nothing to commit" (in any case) continues as
\* after a successful commit: nothing is logged, push is attempted if enabled,
\* else the loop sleeps; the process does not end and the retry path is not
\* taken.  (Stated as the original claim; auto_committer.py ends in the push
\* step that follows.)
C4_NothingToCommitContinues ==
    [][/\ (pc = "commit" /\ trace' = Append(trace, [op |-> "commit", res |-> "nothing"]))
             => (pc' = "push_check" /\ printed' = "")
       /\ (pc = "push_check" /\ last_op = [op |-> "commit", res |-> "nothing"])
             => pc' \in {IF args.no_push THEN "sleep" ELSE "push", "stopped"}]_vars

\* C5: no failure of a version-control operation of the loop (stage, commit,
\* push) leads to a terminated process.  (Stated as the original claim; a
\* failed git add ends the process in both scripts.)
C5_NoVcsFailureStopsLoop ==
    ~ /\ pc = "exited"
      /\ last_op.op \in {"add", "commit", "push"}
      /\ last_op.res # "ok"

\* C6 (as claimed): when the loop is stopped by cancellation, every iteration
\* begun has run to its end: its record was written and staged, its commit
\* attempted, and its push attempted when due.
C6_StopOnlyAtBoundary ==
    (pc = "stopped" /\ iter > 0) =>
        LET it == since_write(trace) IN
        /\ Len(entries("write")) = iter
        /\ Len(it) >= 2
        /\ it[1] = [op |-> "add", res |-> "ok"]
        /\ it[2].op = "commit"
        /\ (it[2].res # "failed" /\ ~args.no_push) => (Len(it) >= 3 /\ it[3].op = "push")

\* C6 (amended): cancellation takes effect at whatever statement of the loop
\* the signal arrives at.  The process then exits with status 0 and the
\* iteration in progress is abandoned there: what it has done is a prefix of
\* write, add, commit, push, sleep, so a record can be left written but not
\* staged or not committed.
C6_StopAtAnyStatement ==
    /\ pc \in LoopSteps => ENABLED KeyboardInterrupt
    /\ pc = "stopped" =>
        LET it == since_write(trace) IN
        /\ exit_code = 0
        /\ exc.type = "KeyboardInterrupt"
        /\ exc.at \in LoopSteps
        /\ exc.at = "mutate" => (iter = 0 \/ last_op.op = "sleep")
        /\ exc.at = "write" => Len(entries("write")) = iter - 1
        /\ exc.at = "add" => (it = << >> /\ Len(entries("write")) = iter /\ index # file)
        /\ exc.at = "commit" => (it = <<[op |-> "add", res |-> "ok"]>> /\ index = file)
        /\ exc.at = "retry_sleep" => last_op = [op |-> "commit", res |-> "failed"]
        /\ exc.at \in {"push_check", "push"}
              => (last_op.op = "commit" /\ last_op.res \in {"ok", "nothing"})
        /\ exc.at = "sleep" => last_op.op \in {"commit", "push"}

\* C6 witness: stopped with a record in the file that was never staged
C6_Witness ==
    /\ pc = "stopped"
    /\ exc.at = "add"
    /\ last_op = [op |-> "write", res |-> "ok"]
    /\ index # file

----------------------------------------------------------------------------
(* What the target file should hold, told from the history alone *)

\* positions of the completed writes in the history
write_positions == {i \in 1..Len(trace) : trace[i] = [op |-> "write", res |-> "ok"]}

n_written == Cardinality(write_positions)

\* the timestamp of the k-th record: the clock reading when it was written,
\* the sleeps before it having advanced the clock by the interval each
written_ts(k) ==
    LET i == CHOOSE w \in write_positions :
                 Cardinality({x \in write_positions : x <= w}) = k
    IN [k |-> "ts", v |-> args.interval * Cardinality({j \in 1..i : trace[j].op = "sleep"})]

\* the record for timestamp t: "heartbeat: <ts>\n", or the template with {ts}
\* replaced and a newline added unless the template ends with one
expected_record(t) ==
    IF variant = "heartbeat" THEN <<Ch("heartbeat: "), t, LF>>
    ELSE LET tpl == args.line_template
             r == [i \in 1..Len(tpl) |-> IF tpl[i].k = "{ts}" THEN t ELSE tpl[i]]
         IN IF Len(tpl) > 0 /\ tpl[Len(tpl)].k = "LF" THEN r ELSE r \o <<LF>>

records_oldest_first ==
    Concat([k \in 1..n_written |-> expected_record(written_ts(k))])

records_newest_first ==
    Concat([k \in 1..n_written |-> expected_record(written_ts(n_written + 1 - k))])

\* the text of raw content as a text-mode reader sees it: undecodable bytes
\* gone, every CR LF pair and every lone CR a single LF
as_text(raw) ==
    LET good == SelectSeq(raw, LAMBDA b : b.k # "BAD")
        F[i \in 0..Len(good)] ==
            IF i = 0 THEN << >>
            ELSE IF good[i].k = "LF" /\ i > 1 /\ good[i - 1].k = "CR" THEN F[i - 1]
            ELSE IF good[i].k = "CR" THEN Append(F[i - 1], LF)
            ELSE Append(F[i - 1], good[i])
    IN F[Len(good)]

\* C7 (as claimed): after N iterations the file holds exactly the N records in
\* call order: append mode, the pre-existing content then the records oldest
\* first; prepend mode, the records newest first then the pre-existing content.
C7_FileHoldsRecordsInOrder ==
    pc \in LoopSteps \ {"write"} =>
        file = IF args.prepend THEN records_newest_first \o pre
               ELSE pre \o records_oldest_first

\* what k prepends leave: each record in front of the earlier content as a
\* text-mode reader sees it
RECURSIVE expected_prepend(_)
expected_prepend(k) ==
    IF k = 0 THEN pre
    ELSE expected_record(written_ts(k)) \o as_text(expected_prepend(k - 1))

\* C7 (amended): as claimed in append mode; in prepend mode each record is put
\* in front of the earlier content as write_line read it back, so the file
\* holds the records newest first and then the pre-existing content, with the
\* undecodable bytes of the earlier content dropped and its CR LF and CR
\* turned into LF.  Only a prepend that cancellation or a write error ends
\* between truncating and rewriting the file leaves less: nothing, or the
\* newest record alone.
C7_FileHoldsRecordsDecoded ==
    /\ (pc # "write" /\ exc.at # "write") =>
          file = IF args.prepend THEN expected_prepend(n_written)
                 ELSE pre \o records_oldest_first
    /\ (pc \in {"stopped", "exited"} /\ exc.at = "write") =>
          file \in {<< >>, expected_record(ts)}
    /\ (args.prepend /\ as_text(pre) = pre /\ CR \notin {args.line_template[i] : i \in 1..Len(args.line_template)}
          /\ pc \in LoopSteps \ {"write"})
          => file = records_newest_first \o pre

\* C7 witness: two records prepended to content the read-back changes
C7_Witness ==
    /\ args.prepend
    /\ n_written = 2
    /\ pc = "add"
    /\ as_text(pre) # pre
    /\ file = records_newest_first \o as_text(pre)

\* C8: the commits made do not depend on push: as many commits exist as
\* commit commands succeeded, whatever the push results; when stage and commit
\* succeeded in each of N iterations, N commits exist, also with every push
\* failed.
C8_CommitsRegardlessOfPush ==
    LET commits == entries("commit") IN
    /\ Len(loop_commits) = Cardinality({i \in 1..Len(commits) : commits[i].res = "ok"})
    /\ (Len(commits) = iter /\ \A i \in 1..Len(commits) : commits[i].res = "ok")
          => Len(loop_commits) = iter

\* C8 witness: two iterations, both pushes failed, two commits
C8_Witness ==
    /\ iter = 2
    /\ pc = "sleep"
    /\ entries("push") = <<[op |-> "push", res |-> "failed"], [op |-> "push", res |-> "failed"]>>
    /\ Len(loop_commits) = 2

\* C9: ensure_branch invokes create-branch only when verify-ref failed (the
\* branch is absent).  (Stated as the original claim; a failed checkout of an
\* existing branch also leads to create-branch.)
C9_CreateOnlyWhenAbsent ==
    [][(pc' = "create" /\ pc # "create")
          => (pc = "verify" /\ refs[args.branch] = << >>)]_vars

\* C10: startup is gated in a fixed order.  Without .git the process exits
\* with status 2 and no git command was run; a failed status check exits with
\* status 3 and no branch command was run; a dirty working tree only warns and
\* startup goes on; a failed branch creation exits non-zero; and mutate, stage,
\* commit and push happen only after the status check and the branch
\* initialization succeeded, with the branch checked out.
C10_StartupGated ==
    LET loop_ops == {i \in 1..Len(trace) : trace[i].op \in {"write", "add", "commit", "push", "sleep"}}
    IN
    /\ ~git_dir => (trace = << >> /\ iter = 0 /\ pc \in {"check_repo", "exited"})
    /\ (~git_dir /\ pc = "exited" /\ exc = NoExc) => exit_code = 2
    /\ exit_code = 2 => ~git_dir
    /\ (trace # << >> /\ trace[1].res = "failed")
          => (pc = "exited" /\ exit_code = 3 /\ Len(trace) = 1 /\ head = StartBranch)
    /\ exit_code = 3 => trace = <<[op |-> "status", res |-> "failed"]>>
    /\ printed = "NOTE"
          => (pc = "verify" /\ exit_code = -1 /\ trace = <<[op |-> "status", res |-> "ok"]>>)
    /\ last_op = [op |-> "create", res |-> "failed"]
          => (pc = "exited" /\ exit_code \notin {0, -1})
    /\ trace # << >> => trace[1].op = "status"
    /\ Len(trace) >= 2 => trace[2].op = "verify"
    /\ (loop_ops # {} \/ iter > 0 \/ pc \in LoopSteps \cup {"stopped"}) =>
          /\ git_dir
          /\ trace[1] = [op |-> "status", res |-> "ok"]
          /\ head = args.branch
          /\ \E j \in 1..Len(trace) :
                /\ trace[j].op \in {"checkout", "create"}
                /\ trace[j].res = "ok"
                /\ \A i \in loop_ops : j < i

\* C10 witness: the loop runs after the status check and a created branch
C10_Witness ==
    /\ pc = "add"
    /\ Len(trace) >= 4
    /\ trace[1] = [op |-> "status", res |-> "ok"]
    /\ trace[3] = [op |-> "create", res |-> "ok"]
    /\ trace[4] = [op |-> "write", res |-> "ok"]

\* C11: the operations of an iteration occur in the order mutate, stage,
\* commit, push, sleep, none of them twice in one iteration: stage directly
\* follows the completed mutate of its iteration, commit a successful stage,
\* push a commit that succeeded or reported nothing to commit, sleep the
\* commit or the push, and a mutate follows a sleep or the branch
\* initialization.  The branch initialization runs once (one verify-ref, then
\* at most one checkout and at most one create) and before the first mutate.
C11_IterationOrder ==
    /\ \A i \in 1..Len(trace) :
          LET prev == IF i = 1 THEN [op |-> "none", res |-> "none"] ELSE trace[i - 1] IN
          /\ trace[i].op = "add" => prev = [op |-> "write", res |-> "ok"]
          /\ trace[i].op = "commit" => prev = [op |-> "add", res |-> "ok"]
          /\ trace[i].op = "push" => (prev.op = "commit" /\ prev.res \in {"ok", "nothing"})
          /\ trace[i].op = "sleep" => prev.op \in {"commit", "push"}
          /\ trace[i].op = "write" =>
                \/ prev.op = "sleep"
                \/ (prev.op \in {"checkout", "create"} /\ prev.res = "ok")
          /\ trace[i].op \in {"status", "verify", "checkout", "create"} =>
                prev.op \in {"none", "status", "verify", "checkout"}
    /\ \A op \in {"status", "verify", "checkout", "create"} : Len(entries(op)) <= 1
    /\ iter > 0 => Len(entries("verify")) = 1
    /\ pc = "add" => last_op = [op |-> "write", res |-> "ok"]
    /\ pc = "commit" => last_op = [op |-> "add", res |-> "ok"]
    /\ pc = "push" => (last_op.op = "commit" /\ last_op.res \in {"ok", "nothing"})

\* C11 witness: a whole iteration with its push, and the next mutate
C11_Witness ==
    /\ Len(trace) >= 6
    /\ [i \in 1..6 |-> trace[Len(trace) - 6 + i].op]
          = <<"write", "add", "commit", "push", "sleep", "write">>
    /\ Len(entries("checkout")) = 1
    /\ iter = 2

----------------------------------------------------------------------------
(* Iterations in the history *)

\* the position of the first mutate after position i (0 when there is none)
next_write(i) ==
    LET later == {w \in (i + 1)..Len(trace) : trace[w].op = "write"}
    IN IF later = {} THEN 0 ELSE CHOOSE w \in later : \A x \in later : w <= x

\* the positions of the iteration that begins with the mutate at position w
iteration_at(w) ==
    {j \in w..Len(trace) : \A x \in (w + 1)..j : trace[x].op # "write"}

\* every push directly follows the commit of its iteration
one_push_per_iteration ==
    \A i \in 1..Len(trace) :
        trace[i].op = "push" => (i > 1 /\ trace[i - 1].op = "commit")

\* C12 (as claimed): a failed push is not repeated in its iteration, and the
\* iteration after it, once it has run to its sleep, has attempted a push.
C12_PushRetriedNextIteration ==
    /\ one_push_per_iteration
    /\ \A i \in 1..Len(trace) :
          (trace[i] = [op |-> "push", res |-> "failed"] /\ next_write(i) # 0) =>
              LET it == iteration_at(next_write(i)) IN
              (\E j \in it : trace[j].op = "sleep") => (\E j \in it : trace[j].op = "push")

\* C12 (amended): a failed push is followed by the sleep and never by another
\* push in its iteration, and at most one push is attempted per iteration.
\* The iteration after it attempts a push again when its commit succeeded or
\* reported nothing to commit; when that commit failed the iteration sleeps
\* without a push, and the retry is left to a later iteration.
C12_PushRetriedAfterCommit ==
    /\ one_push_per_iteration
    /\ \A i \in 1..Len(trace) :
          trace[i] = [op |-> "push", res |-> "failed"] =>
              /\ i < Len(trace) => trace[i + 1] = [op |-> "sleep", res |-> "ok"]
              /\ i = Len(trace) => pc \in {"sleep", "stopped"}
              /\ next_write(i) # 0 =>
                    \A j \in iteration_at(next_write(i)) :
                        trace[j].op = "commit" =>
                            IF trace[j].res = "failed"
                            THEN j < Len(trace) => trace[j + 1].op = "sleep"
                            ELSE /\ j < Len(trace) => trace[j + 1].op = "push"
                                 /\ j = Len(trace) => pc \in {"push_check", "push", "stopped"}

\* C12 witness: the push of the first iteration failed and the push of the
\* second delivered both commits
C12_Witness ==
    /\ entries("push") = <<[op |-> "push", res |-> "failed"], [op |-> "push", res |-> "ok"]>>
    /\ Len(loop_commits) = 2
    /\ remote = refs[args.branch]
    /\ pc = "sleep"

\* C13: a failed mutate is fatal.  The process ends with an uncaught OSError
\* (exit status 1) at that step: no stage, commit, push or sleep follows the
\* failed write, nothing is staged or committed for it, and no further write
\* is attempted.
C13_WriteFailureFatal ==
    /\ \A i \in 1..Len(trace) :
          trace[i] = [op |-> "write", res |-> "failed"] =>
              /\ i = Len(trace)
              /\ pc = "exited"
              /\ exit_code = 1
              /\ exc.type = "OSError"
              /\ exc.at \in {"mutate", "write"}
              /\ Len(entries("add")) = n_written
              /\ Len(entries("write")) = iter
    /\ exc.type = "OSError" => last_op = [op |-> "write", res |-> "failed"]

\* C13 witness: the write of the second iteration failed after a first
\* iteration that ran to its sleep
C13_Witness ==
    /\ pc = "exited"
    /\ iter = 2
    /\ n_written = 1
    /\ Len(trace) >= 2
    /\ trace[Len(trace) - 1] = [op |-> "sleep", res |-> "ok"]
    /\ trace[Len(trace)] = [op |-> "write", res |-> "failed"]

----------------------------------------------------------------------------
(* Commits and the records they belong to *)

\* positions of the successful commits in the history
commit_positions == {i \in 1..Len(trace) : trace[i] = [op |-> "commit", res |-> "ok"]}

\* the position in the history of the j-th successful commit
commit_position(j) ==
    CHOOSE c \in commit_positions : Cardinality({x \in commit_positions : x <= c}) = j

\* the number of the iteration that made the j-th commit: the records written
\* up to it
iteration_of_commit(j) == Cardinality({w \in write_positions : w < commit_position(j)})

\* C14: an iteration takes one timestamp: the message of its commit is
\* "<message> <ts>" with the ts of the record that iteration wrote, which the
\* committed file holds; the timestamps of different iterations differ, so a
\* commit never carries the timestamp of another iteration's record, also
\* when the commit before it failed and the loop retried.
C14_CommitCarriesRecordTs ==
    /\ Len(loop_commits) = Cardinality(commit_positions)
    /\ \A j \in 1..Len(loop_commits) :
          LET k == iteration_of_commit(j) IN
          /\ loop_commits[j].msg = <<Ch("[bot] heartbeat"), Ch(" "), written_ts(k)>>
          /\ contains(loop_commits[j].tree, expected_record(written_ts(k)))
    /\ \A k \in 2..n_written : written_ts(k - 1).v < written_ts(k).v
    /\ pc \in {"add", "commit"} => ts = written_ts(n_written)

\* C14 witness: the first commit failed, the loop retried, and the commit of
\* the second iteration carries the timestamp of the second record
C14_Witness ==
    /\ entries("commit") = <<[op |-> "commit", res |-> "failed"], [op |-> "commit", res |-> "ok"]>>
    /\ Len(loop_commits) = 1
    /\ loop_commits[1].msg[3] = written_ts(2)
    /\ written_ts(2) # written_ts(1)

\* C15: in append mode the two scripts run the same control loop.  Their
\* startup, ensure_branch, stage, commit handler, push handler and sleeps are
\* the same statements; what can differ is the test that leads to the push
\* step, so the loops are the same only if, wherever that test is reached,
\* both scripts take the same branch and a run ends there in neither.
\* (Stated as the original claim; auto_committer.py ends at the test, where
\* auto_committer_readme.py goes on to push or to sleep.)
C15_SameControlLoop ==
    (~args.prepend /\ pc = "push_check") =>
        /\ push_test("heartbeat") = push_test("readme")
        /\ \A script \in Variants : push_test(script) \in {"push", "skip"}

\* the sleeps between positions a and b of the history
sleeps_between(a, b) == {x \in (a + 1)..(b - 1) : trace[x].op = "sleep"}

\* C16: between two consecutive mutates the loop sleeps the configured
\* interval exactly once, whatever the path of the iteration (commit
\* succeeded, nothing to commit, commit failed, push failed, push disabled):
\* records are never written back to back, no iteration sleeps twice, and
\* every sleep lasts the interval.
C16_OneSleepBetweenWrites ==
    /\ \A a \in 1..Len(trace) :
          (trace[a].op = "write" /\ next_write(a) # 0) =>
              Cardinality(sleeps_between(a, next_write(a))) = 1
    /\ \A a \in 1..Len(trace) :
          (trace[a].op = "write" /\ next_write(a) = 0) =>
              Cardinality(sleeps_between(a, Len(trace) + 1)) <= 1
    /\ \A x \in 1..Len(trace) :
          (trace[x].op = "sleep" /\ x < Len(trace)) => trace[x + 1].op = "write"
    /\ slept = args.interval * Len(entries("sleep"))
    /\ clock = slept
    /\ (pc = "mutate" /\ iter > 0) => last_op.op = "sleep"
    /\ (pc = "write" /\ iter > 1) => last_op.op = "sleep"

\* C16 witness: with push disabled and nothing to commit, the second record
\* was written after one sleep
C16_Witness ==
    /\ args.no_push
    /\ Len(trace) >= 3
    /\ trace[Len(trace) - 2] = [op |-> "commit", res |-> "nothing"]
    /\ trace[Len(trace) - 1] = [op |-> "sleep", res |-> "ok"]
    /\ trace[Len(trace)] = [op |-> "write", res |-> "ok"]
    /\ slept = args.interval
    /\ n_written = 2

----------------------------------------------------------------------------
(* Commits against records *)

\* the commit attempts that made no commit
commits_not_made ==
    {i \in 1..Len(trace) : trace[i].op = "commit" /\ trace[i].res \in {"failed", "nothing"}}

\* 1 while the newest record has had no commit attempt, else 0
in_progress == IF Len(entries("commit")) < n_written THEN 1 ELSE 0

\* the first k records, oldest first
records_up_to(k) == Concat([i \in 1..k |-> expected_record(written_ts(i))])

\* commits never outnumber records, and differ from them by the iterations
\* whose commit was not made plus the one in progress
commits_against_records ==
    /\ Len(loop_commits) = Cardinality(commit_positions)
    /\ Len(loop_commits) <= n_written
    /\ n_written - Len(loop_commits) = Cardinality(commits_not_made) + in_progress

\* C17 (as claimed): commits never outnumber records and differ from them by
\* the failed and nothing-to-commit iterations plus the one in progress; the
\* record of every iteration so far, committed or not, is in the file, and
\* every commit carries the records of all iterations up to its own.
C17_CommitsCarryRecords ==
    /\ commits_against_records
    /\ (pc # "write" /\ exc.at # "write") =>
          \A k \in 1..n_written : contains(file, expected_record(written_ts(k)))
    /\ \A j \in 1..Len(loop_commits) :
          \A k \in 1..iteration_of_commit(j) :
              contains(loop_commits[j].tree, expected_record(written_ts(k)))

\* C17 (amended): the counts as claimed.  A commit carries the file as it was
\* staged: in append mode the earlier content and every record up to its own
\* iteration, those of failed iterations included, unchanged; in prepend mode
\* the newest record unchanged in front of the earlier content, records
\* included, as the prepends rewrote it (undecodable bytes dropped, CR LF and
\* CR turned into LF).  The file holds the oldest record likewise, except
\* after a prepend cut short between truncating and rewriting it.
C17_CommitsCarryRecordsAsRewritten ==
    /\ commits_against_records
    /\ (pc # "write" /\ exc.at # "write" /\ n_written > 0) =>
          contains(file, IF args.prepend /\ n_written > 1
                         THEN as_text(expected_record(written_ts(1)))
                         ELSE expected_record(written_ts(1)))
    /\ \A j \in 1..Len(loop_commits) :
          LET n == iteration_of_commit(j) IN
          loop_commits[j].tree = IF args.prepend THEN expected_prepend(n)
                                 ELSE pre \o records_up_to(n)

\* C17 witness: the commit of the first iteration failed, and the commit of
\* the second carries both records
C17_Witness ==
    /\ n_written = 2
    /\ Len(loop_commits) = 1
    /\ Cardinality(commits_not_made) = 1
    /\ trace[commit_position(1) - 3] = [op |-> "sleep", res |-> "ok"]
    /\ contains(loop_commits[1].tree, expected_record(written_ts(1)))
    /\ contains(loop_commits[1].tree, expected_record(written_ts(2)))
    /\ Len(loop_commits[1].tree) = Len(pre) + Len(records_up_to(2))

====
